---------------------------- MODULE Spec2Model ----------------------------
(***************************************************************************)
(* A model of lazy_astroph.py: the keyword-file parser of doit, the        *)
(* per-entry keyword matching of ArxivQuery.do_query, and the pipeline     *)
(* search_arxiv -> filter_keyword_requires -> send_email -> slack_post ->  *)
(* write of the resume marker.                                             *)
(*                                                                         *)
(* Python strings are modelled as sequences of one-character strings, so   *)
(* that lower(), strip(), split() and the substring test `in` are computed *)
(* and not assumed.  None is modelled as the empty sequence where the      *)
(* value is otherwise a string (a channel name, an id).                    *)
(***************************************************************************)
EXTENDS Naturals, Sequences, FiniteSets

VARIABLES
    pc,             \* position of the modelled routine
    channel,        \* doit: the channel the next keyword line is attached to
    channel_req,    \* doit: dict channel -> requires, in insertion order
    keywords,       \* doit: list of Keyword objects
    nlines,         \* number of lines of the inputs file read so far
    line,           \* doit: the line of the inputs file read last
    entry,          \* do_query: the feed entry e being evaluated
    res,            \* do_query: locals of the loop body after evaluating e
    dry_run,        \* args.dry_run
    mail,           \* args.m is given
    webhook,        \* args.w is given
    old_id,         \* doit: the marker read from the param file, or None
    param_file,     \* the content of the param file, None when there is none
    writes,         \* number of times the param file was written in this run
    feeds,          \* the entries of the feed responses parsed so far
    cat_papers,     \* search_arxiv: cat_papers
    cat_last_id,    \* search_arxiv: cat_last_id
    papers,         \* doit: papers
    last_id,        \* doit: last_id
    claims,         \* filter_keyword_requires: the channel c of each append
    body,           \* send_email: the papers written to the body, in order
    payloads,       \* slack_post: the payloads handed to run(), in order
    exit_msg        \* why the run ended early, None when it did not

parseVars == <<channel, channel_req, keywords, nlines, line>>

matchVars == <<entry, res>>

runVars == <<dry_run, mail, webhook, old_id, param_file, writes, feeds,
             cat_papers, cat_last_id, papers, last_id, claims, body, payloads,
             exit_msg>>

vars == <<pc, parseVars, matchVars, runVars>>

None == <<>>

-----------------------------------------------------------------------------
(* Bounds *)

MaxLines == 2       \* lines of the inputs file read by the parser
MaxKwLen == 2       \* characters of the keyword part of a keyword line
MaxTextLen == 2     \* characters of an entry's title and abstract together
MaxRules == 2       \* rules of a ruleset
MaxEntries == 2     \* entries of all the feed responses of a run together

-----------------------------------------------------------------------------
(* str methods *)

Whitespace == {" ", "\n"}

\* str.lower()
LowerChar(c) ==
    CASE c = "A" -> "a"
      [] c = "B" -> "b"
      [] c = "C" -> "c"
      [] OTHER -> c

Lower(s) == [i \in 1..Len(s) |-> LowerChar(s[i])]

\* str.replace(old, new) for a one-character old
ReplaceChar(s, old, new) == [i \in 1..Len(s) |-> IF s[i] = old THEN new ELSE s[i]]

\* str.lstrip / rstrip / strip: with no argument cs is the whitespace
RECURSIVE RStripChars(_, _)
RStripChars(s, cs) ==
    IF s # <<>> /\ s[Len(s)] \in cs
    THEN RStripChars(SubSeq(s, 1, Len(s) - 1), cs)
    ELSE s

RECURSIVE LStripChars(_, _)
LStripChars(s, cs) ==
    IF s # <<>> /\ s[1] \in cs
    THEN LStripChars(Tail(s), cs)
    ELSE s

StripChars(s, cs) == LStripChars(RStripChars(s, cs), cs)

\* n in s
IsSubstr(n, s) ==
    \E i \in 0..Len(s) : i + Len(n) <= Len(s) /\ SubSeq(s, i + 1, i + Len(n)) = n

\* s.startswith(p)
StartsWith(s, p) == Len(p) <= Len(s) /\ SubSeq(s, 1, Len(p)) = p

\* s.split(sep) for a non-empty separator
RECURSIVE SplitSep(_, _)
SplitSep(s, sep) ==
    IF ~IsSubstr(sep, s)
    THEN <<s>>
    ELSE LET i == CHOOSE j \in 0..Len(s) :
                     /\ j + Len(sep) <= Len(s)
                     /\ SubSeq(s, j + 1, j + Len(sep)) = sep
                     /\ \A h \in 0..(j - 1) : SubSeq(s, h + 1, h + Len(sep)) # sep
         IN  <<SubSeq(s, 1, i)>> \o SplitSep(SubSeq(s, i + Len(sep) + 1, Len(s)), sep)

\* s.split(): the maximal runs of non-whitespace characters
RECURSIVE SplitWs(_)
SplitWs(s) ==
    LET t == LStripChars(s, Whitespace)
    IN  IF t = <<>>
        THEN <<>>
        ELSE LET n == CHOOSE j \in 1..Len(t) :
                          /\ \A h \in 1..j : t[h] \notin Whitespace
                          /\ (j = Len(t) \/ t[j + 1] \in Whitespace)
             IN  <<SubSeq(t, 1, n)>> \o SplitWs(SubSeq(t, n + 1, Len(t)))

\* s[-2:]
LastTwo(s) == IF Len(s) <= 2 THEN s ELSE SubSeq(s, Len(s) - 1, Len(s))

\* s[:len(s)-1]
DropLast(s) == SubSeq(s, 1, Len(s) - 1)

Digits == <<"0", "1", "2", "3", "4", "5", "6", "7", "8", "9">>

DigitVal(c) == (CHOOSE i \in 1..Len(Digits) : Digits[i] = c) - 1

\* int(s) for a string of decimal digits
RECURSIVE IntOf(_)
IntOf(s) == IF s = <<>> THEN 0 ELSE 10 * IntOf(DropLast(s)) + DigitVal(s[Len(s)])

-----------------------------------------------------------------------------
(* doit: the parser of the inputs file, lines 433-474 *)

NotSep == <<"n", "o", "t", ":">>

\* Keyword.__init__
Keyword(name, matching, required, chan, excludes) ==
    [name |-> name, matching |-> matching, required |-> required,
     channel |-> chan, excludes |-> {excludes[i] : i \in 1..Len(excludes)}]

\* channel_req[channel] = requires on a dict kept in insertion order
DictSet(d, k, v) ==
    IF \E i \in 1..Len(d) : d[i].c = k
    THEN [i \in 1..Len(d) |-> IF d[i].c = k THEN [c |-> k, n |-> v] ELSE d[i]]
    ELSE Append(d, [c |-> k, n |-> v])

\* l = line.lower().rstrip()
CleanLine(raw) == RStripChars(Lower(raw), Whitespace)

IsBlankLine(raw) == CleanLine(raw) = <<>>

IsChannelLine(raw) ==
    LET l == CleanLine(raw)
    IN  l # <<>> /\ (StartsWith(l, <<"#">>) \/ StartsWith(l, <<"@">>))

IsKeywordLine(raw) == ~IsBlankLine(raw) /\ ~IsChannelLine(raw)

\* the requires of a channel raw: ch = l.split()
ChannelRequires(ch) ==
    IF Len(ch) = 2 THEN IntOf(SplitSep(ch[2], <<"=">>)[2]) ELSE 1

\* the keyword part and the excludes of a keyword raw
KeywordPart(l) ==
    IF IsSubstr(NotSep, l) THEN StripChars(SplitSep(l, NotSep)[1], Whitespace)
    ELSE StripChars(l, Whitespace)

ExcludesPart(l) ==
    IF IsSubstr(NotSep, l)
    THEN LET nots == SplitSep(SplitSep(l, NotSep)[2], <<",">>)
         IN  [i \in 1..Len(nots) |-> StripChars(nots[i], Whitespace)]
    ELSE <<>>

\* the suffix handling of lines 461-471, applied to the keyword part
SuffixMatching(kw) == IF IsSubstr(<<"-">>, LastTwo(kw)) THEN "unique" ELSE "any"

SuffixRequired(kw) == IsSubstr(<<"!">>, LastTwo(kw))

SuffixName(kw) ==
    LET kw1 == IF IsSubstr(<<"-">>, LastTwo(kw)) THEN DropLast(kw) ELSE kw
    IN  IF IsSubstr(<<"!">>, LastTwo(kw)) THEN DropLast(kw1) ELSE kw1

ParseKeyword(l, chan) ==
    LET kw == KeywordPart(l)
    IN  Keyword(SuffixName(kw), SuffixMatching(kw), SuffixRequired(kw),
                chan, ExcludesPart(l))

\* one iteration of `for line in f`, on the parser's state
ParseLine(st, raw) ==
    LET l == CleanLine(raw)
    IN  IF IsBlankLine(raw) THEN st
        ELSE IF IsChannelLine(raw)
        THEN LET ch == SplitWs(l)
             IN  [st EXCEPT !.channel = ch[1],
                            !.channel_req = DictSet(st.channel_req, ch[1],
                                                    ChannelRequires(ch))]
        ELSE [st EXCEPT !.keywords = Append(st.keywords, ParseKeyword(l, st.channel))]

ParserInit == [channel |-> None, channel_req |-> <<>>, keywords |-> <<>>]

RECURSIVE ParseFile(_)
ParseFile(lines) ==
    IF lines = <<>> THEN ParserInit
    ELSE ParseLine(ParseFile(DropLast(lines)), lines[Len(lines)])

-----------------------------------------------------------------------------
(* The lines the parser is run on *)

KwChar == {"a", "-", "!"}

RECURSIVE SeqsUpTo(_, _)
SeqsUpTo(S, n) ==
    IF n = 0 THEN {<<>>}
    ELSE LET shorter == SeqsUpTo(S, n - 1)
         IN  shorter \cup {Append(s, c) : s \in shorter, c \in S}

KwParts == SeqsUpTo(KwChar, MaxKwLen) \ {<<>>}

\* what may follow the keyword part on its line
LineTails ==
    { <<"\n">>,
      <<" ", "n", "o", "t", ":", " ", "B", ",", "c", "\n">> }

KeywordLines == {k \o t : k \in KwParts, t \in LineTails}

ChannelLines ==
    { <<"#", "x", "\n">>,
      <<"#", "Y", " ", "r", "=", "2", "\n">>,
      <<"@", "z", " ", "r", "=", "3", " ", "!", "\n">> }

BlankLines == { <<"\n">>, <<" ", "\n">> }

NoEntry == [title |-> <<>>, abstract |-> <<>>]

NoRes == [evaluated |-> FALSE]

MatchIdle == entry = NoEntry /\ res = NoRes

\* "0000.00000", the initial cat_last_id of search_arxiv
ZeroId == <<"0">>

RunIdle ==
    /\ dry_run = FALSE /\ mail = FALSE /\ webhook = FALSE
    /\ old_id = None /\ param_file = None /\ writes = 0
    /\ feeds = <<>> /\ cat_papers = <<>> /\ cat_last_id = ZeroId
    /\ papers = <<>> /\ last_id = None /\ claims = <<>>
    /\ body = <<>> /\ payloads = <<>> /\ exit_msg = None

InitParse ==
    /\ pc = "parse"
    /\ channel = ParserInit.channel
    /\ channel_req = ParserInit.channel_req
    /\ keywords = ParserInit.keywords
    /\ nlines = 0
    /\ line = <<>>
    /\ MatchIdle
    /\ RunIdle

\* the body of `for line in f` on the next line of the file
ReadLine(next) ==
    LET st == ParseLine([channel |-> channel, channel_req |-> channel_req,
                         keywords |-> keywords], next)
    IN  /\ channel' = st.channel
        /\ channel_req' = st.channel_req
        /\ keywords' = st.keywords
        /\ nlines' = nlines + 1
        /\ line' = next

BlankLine ==
    /\ pc = "parse"
    /\ nlines < MaxLines
    /\ \E next \in BlankLines : ReadLine(next)
    /\ UNCHANGED <<pc, matchVars, runVars>>

ChannelLine ==
    /\ pc = "parse"
    /\ nlines < MaxLines
    /\ \E next \in ChannelLines : ReadLine(next)
    /\ UNCHANGED <<pc, matchVars, runVars>>

KeywordLine ==
    /\ pc = "parse"
    /\ nlines < MaxLines
    /\ \E next \in KeywordLines : ReadLine(next)
    /\ UNCHANGED <<pc, matchVars, runVars>>

NextParse == BlankLine \/ ChannelLine \/ KeywordLine

SpecParse == InitParse /\ [][NextParse]_vars

-----------------------------------------------------------------------------
(* ArxivQuery.do_query: the evaluation of one entry, lines 202-256 *)

Punctuation == {"\"", ":", ".", ",", "!", "?"}

\* title = e.title.replace("\n", " ")
TitleOf(e) == ReplaceChar(e.title, "\n", " ")

\* [l.lower().strip('\":.,!?') for l in text.split()]
Words(text) ==
    LET ws == SplitWs(text)
    IN  {StripChars(Lower(ws[i]), Punctuation) : i \in 1..Len(ws)}

\* a variant of Excluded that looks for the exclude terms in the abstract only
ExcludedAbstractOnly(k, title, abstract) ==
    \E n \in k.excludes : IsSubstr(n, ReplaceChar(Lower(abstract), "\n", " "))

\* the excluded flag of get_match
Excluded(k, title, abstract) ==
    \E n \in k.excludes :
        \/ IsSubstr(n, ReplaceChar(Lower(abstract), "\n", " "))
        \/ IsSubstr(n, Lower(title))

\* a variant of get_match that reports an excluded rule as not matched
GetMatchExcludedUnmatched(k, title, abstract) ==
    IF Excluded(k, title, abstract) THEN <<FALSE, TRUE>>
    ELSE IF k.matching = "any"
    THEN <<\/ IsSubstr(k.name, ReplaceChar(Lower(abstract), "\n", " "))
           \/ IsSubstr(k.name, Lower(title)), FALSE>>
    ELSE <<k.name \in Words(abstract) \cup Words(title), FALSE>>

\* get_match(k): <<matched?, excluded?>>
GetMatch(k, title, abstract) ==
    IF Excluded(k, title, abstract) THEN <<TRUE, TRUE>>
    ELSE IF k.matching = "any"
    THEN IF \/ IsSubstr(k.name, ReplaceChar(Lower(abstract), "\n", " "))
            \/ IsSubstr(k.name, Lower(title))
         THEN <<TRUE, FALSE>>
         ELSE <<FALSE, FALSE>>
    ELSE IF k.matching = "unique"
    THEN IF k.name \in Words(abstract) \cup Words(title)
         THEN <<TRUE, FALSE>>
         ELSE <<FALSE, FALSE>>
    ELSE <<FALSE, FALSE>>

\* what one rule does to the locals of `for k in keywords`; stop is the break
RuleStep(acc, k, i, title, abstract) ==
    LET m == GetMatch(k, title, abstract)
    IN  IF k.required /\ ~m[1]
        THEN [acc EXCEPT !.meets_requirements = FALSE, !.broke_at = i]
        ELSE IF m[1] /\ ~m[2]
        THEN [acc EXCEPT !.key_match_results = Append(@, i)]
        ELSE acc

\* `for k in keywords` from rule i on; broke_at is the index of the rule the
\* loop left at with break, 0 when it ran to the end
RECURSIVE RuleLoop(_, _, _, _, _)
RuleLoop(kws, i, title, abstract, acc) ==
    IF i > Len(kws) THEN acc
    ELSE LET next == RuleStep(acc, kws[i], i, title, abstract)
         IN  IF next.broke_at # 0 THEN next
             ELSE RuleLoop(kws, i + 1, title, abstract, next)

\* lines 235-256 for the entry e: the locals, and the Paper appended to
\* results when there is one (key_match_results holds indices into kws)
EvalEntry(e, kws) ==
    LET acc == RuleLoop(kws, 1, TitleOf(e), e.abstract,
                        [meets_requirements |-> TRUE, key_match_results |-> <<>>,
                         broke_at |-> 0])
        kmr == acc.key_match_results
        keys_matched == {kws[kmr[j]].name : j \in 1..Len(kmr)}
        channels == {kws[kmr[j]].channel : j \in 1..Len(kmr)}
    IN  [evaluated |-> TRUE,
         meets_requirements |-> acc.meets_requirements,
         key_match_results |-> kmr,
         broke_at |-> acc.broke_at,
         has_paper |-> keys_matched # {},
         keywords |-> keys_matched,
         channels |-> channels]

-----------------------------------------------------------------------------
(* The entries and rulesets do_query's loop body is run on *)

TextChar == {"a", "B", "\n", "."}

Entries ==
    {[title |-> t, abstract |-> a] :
        t \in SeqsUpTo(TextChar, MaxTextLen), a \in SeqsUpTo(TextChar, MaxTextLen)}

MatchEntries == {e \in Entries : Len(e.title) + Len(e.abstract) <= MaxTextLen}

\* the rules are what ParseKeyword gives for the lines
\*   a, a-, a!, a-!, b, ... , and a not:b, a- not:b, ...
MatchRules ==
    {[name |-> ne[1], matching |-> m, required |-> r, channel |-> None,
      excludes |-> ne[2]] :
        ne \in {<< <<"a">>, {} >>, << <<"a">>, {<<"b">>} >>, << <<"b">>, {} >>},
        m \in {"any", "unique"}, r \in BOOLEAN}

\* the channel of the i-th rule: one channel line before the first rule and
\* one before the second
MatchChannel(i) == IF i = 1 THEN <<"#", "x">> ELSE <<"#", "y">>

RuleSets ==
    {[i \in 1..Len(ks) |-> [ks[i] EXCEPT !.channel = MatchChannel(i)]] :
        ks \in SeqsUpTo(MatchRules, MaxRules)}

InitMatch ==
    /\ pc = "query"
    /\ keywords \in RuleSets
    /\ channel = IF keywords = <<>> THEN None ELSE MatchChannel(Len(keywords))
    /\ channel_req = [i \in 1..Len(keywords) |-> [c |-> MatchChannel(i), n |-> 1]]
    /\ nlines = 0
    /\ line = <<>>
    /\ MatchIdle
    /\ RunIdle
    /\ RunIdle

\* one iteration of `for e in feed.entries` under the parsed ruleset
EvaluateEntry ==
    /\ pc = "query"
    /\ \E e \in MatchEntries :
          /\ entry' = e
          /\ res' = EvalEntry(e, keywords)
    /\ pc' = "evaluated"
    /\ UNCHANGED <<parseVars, runVars>>

NextMatch == EvaluateEntry

SpecMatch == InitMatch /\ [][NextMatch]_vars

-----------------------------------------------------------------------------
(* Paper, ArxivQuery.do_query over one feed response, search_arxiv *)

\* Paper.__init__; title and url are display data and are not modelled
Paper(arxiv_id, keys, chans) ==
    [arxiv_id |-> arxiv_id, keywords |-> keys, channels |-> chans,
     posted_to_slack |-> FALSE]

\* float(arxiv_id.split("v")[0]); the ids of the model are strings of digits
\* with an optional version suffix
IdNum(id) == IntOf(SplitSep(id, <<"v">>)[1])

\* the resume filter of lines 192-195
Skipped(e, old) == old # None /\ IdNum(e.id) < IdNum(old)

\* the results of do_query for the entries of one feed response
RECURSIVE QueryResults(_, _, _)
QueryResults(feed, kws, old) ==
    IF feed = <<>> THEN <<>>
    ELSE LET e == Head(feed)
             rest == QueryResults(Tail(feed), kws, old)
             r == EvalEntry(e, kws)
         IN  IF Skipped(e, old) THEN rest
             ELSE IF r.has_paper
             THEN <<Paper(e.id, r.keywords, r.channels)>> \o rest
             ELSE rest

\* a variant of LatestId: the id with the highest number in the feed
LatestIdHighest(feed) ==
    feed[CHOOSE i \in 1..Len(feed) :
             \A j \in 1..Len(feed) : IdNum(feed[j].id) <= IdNum(feed[i].id)].id

\* the latest_id do_query returns: set at the first entry, before the resume
\* filter is looked at
LatestId(feed) == feed[1].id

\* lines 304-306 of search_arxiv
NextLastId(cur, latest) == IF IdNum(cur) < IdNum(latest) THEN latest ELSE cur

\* list(set(cat_papers)): Paper.__eq__ and __hash__ are by arxiv_id, and a set
\* keeps the element it already holds
Deduped(ps) ==
    {ps[i] : i \in {i \in 1..Len(ps) :
                        \A j \in 1..(i - 1) : ps[j].arxiv_id # ps[i].arxiv_id}}

\* Paper.__lt__ where it is decided by the number of keywords.  Between papers
\* with as many keywords it compares kw_str(), the keywords joined in the
\* order list(set(keys_matched)) gave them, which is the hash order of the
\* interpreter: the model leaves that order open.
PaperLt(p, q) == Cardinality(p.keywords) < Cardinality(q.keywords)

\* a variant of SortedOrders: the lists cat_papers.sort() gives
SortedOrdersAscending(S) ==
    {f \in [1..Cardinality(S) -> S] :
        /\ \A i, j \in 1..Cardinality(S) : i # j => f[i] # f[j]
        /\ \A i \in 1..(Cardinality(S) - 1) : ~PaperLt(f[i + 1], f[i])}

\* the lists cat_papers.sort(reverse=True) can give for list(set(cat_papers))
SortedOrders(S) ==
    {f \in [1..Cardinality(S) -> S] :
        /\ \A i, j \in 1..Cardinality(S) : i # j => f[i] # f[j]
        /\ \A i \in 1..(Cardinality(S) - 1) : ~PaperLt(f[i], f[i + 1])}

-----------------------------------------------------------------------------
(* filter_keyword_requires, send_email, slack_post *)

\* a variant of Qualifies that does not look at posted_to_slack
QualifiesIgnoringPosted(p, cr) ==
    cr.c \in p.channels /\ Cardinality(p.keywords) >= cr.n

\* the three nested tests of lines 326-328 and of lines 379-381
Qualifies(p, cr) ==
    /\ ~p.posted_to_slack
    /\ cr.c \in p.channels
    /\ Cardinality(p.keywords) >= cr.n

\* `for c in channel_req: for p in papers:` from channel ci and paper pi on;
\* out lists, in order, the channel and the paper of each p that qualified
RECURSIVE ClaimLoop(_, _, _, _, _)
ClaimLoop(ps, creq, ci, pi, out) ==
    IF ci > Len(creq) THEN [papers |-> ps, out |-> out]
    ELSE IF pi > Len(ps) THEN ClaimLoop(ps, creq, ci + 1, 1, out)
    ELSE IF Qualifies(ps[pi], creq[ci])
    THEN ClaimLoop([ps EXCEPT ![pi].posted_to_slack = TRUE], creq, ci, pi + 1,
                   Append(out, [c |-> creq[ci].c, i |-> pi]))
    ELSE ClaimLoop(ps, creq, ci, pi + 1, out)

\* filter_keyword_requires(papers, channel_req); doit always passes a dict,
\* so the branch `channel_req is None` is never taken
FilterClaims(ps, creq) ==
    ClaimLoop([i \in 1..Len(ps) |-> [ps[i] EXCEPT !.posted_to_slack = FALSE]],
              creq, 1, 1, <<>>)

FilterKeywordRequires(ps, creq) ==
    LET r == FilterClaims(ps, creq)
    IN  [j \in 1..Len(r.out) |-> r.papers[r.out[j].i]]

\* slack_post: the channel_body of channel creq[ci], as the ids of its papers
SlackClaims(ps, creq) == ClaimLoop(ps, creq, 1, 1, <<>>)

ChannelBody(ps, creq, ci) ==
    LET out == SlackClaims(ps, creq).out
        mine == SelectSeq(out, LAMBDA x : x.c = creq[ci].c)
    IN  [j \in 1..Len(mine) |-> ps[mine[j].i].arxiv_id]

-----------------------------------------------------------------------------
(* doit from the query on: the runs it is checked on *)

ChX == <<"#", "x", "\n">>
ChY == <<"#", "y", "\n">>
ChXr2 == <<"#", "x", " ", "r", "e", "q", "u", "i", "r", "e", "s", "=", "2", "\n">>
ChYr2 == <<"#", "y", " ", "r", "e", "q", "u", "i", "r", "e", "s", "=", "2", "\n">>
KwA == <<"a", "\n">>
KwB == <<"b", "\n">>
KwC == <<"c", "\n">>
KwAUniqueNotC == <<"a", "-", " ", "n", "o", "t", ":", " ", "c", "\n">>

\* the inputs files: no channel; two channels, the second asking for two
\* keywords; a keyword in two channels; one channel asking for two keywords
RunFiles ==
    { <<KwAUniqueNotC>>,
      <<ChX, KwA, ChYr2, KwB, KwC>>,
      <<ChX, KwA, KwB, KwC, ChY, KwA>>,
      <<ChXr2, KwB, KwC, KwA>> }

RunIds == { <<"1">>, <<"2", "v", "2">>, <<"3">> }

RunAbstracts == { <<"a">>, <<"B", "\n", "c">> }

RunEntries ==
    {[id |-> i, title |-> <<>>, abstract |-> t] : i \in RunIds, t \in RunAbstracts}

Feeds == SeqsUpTo(RunEntries, MaxEntries) \ {<<>>}

RECURSIVE TotalLen(_)
TotalLen(fs) == IF fs = <<>> THEN 0 ELSE Len(Head(fs)) + TotalLen(Tail(fs))

InitRun ==
    /\ pc = "search"
    /\ \E f \in RunFiles :
          /\ channel = ParseFile(f).channel
          /\ channel_req = ParseFile(f).channel_req
          /\ keywords = ParseFile(f).keywords
          /\ nlines = Len(f)
          /\ line = f[Len(f)]
    /\ MatchIdle
    /\ dry_run \in BOOLEAN /\ mail \in BOOLEAN /\ webhook \in BOOLEAN
    /\ old_id \in {None, <<"2", "v", "2">>}
    /\ param_file = old_id
    /\ writes = 0
    /\ feeds = <<>> /\ cat_papers = <<>> /\ cat_last_id = ZeroId
    /\ papers = <<>> /\ last_id = None /\ claims = <<>>
    /\ body = <<>> /\ payloads = <<>> /\ exit_msg = None

\* search_arxiv: one iteration of `for category in categories`, the feed
\* response being feed
DoQuery ==
    /\ pc = "search"
    /\ \E feed \in Feeds :
          /\ TotalLen(feeds) + Len(feed) <= MaxEntries
          /\ feeds' = Append(feeds, feed)
          /\ cat_papers' = cat_papers \o QueryResults(feed, keywords, old_id)
          /\ cat_last_id' = NextLastId(cat_last_id, LatestId(feed))
    /\ UNCHANGED <<pc, parseVars, matchVars, dry_run, mail, webhook, old_id,
                   param_file, writes, papers, last_id, claims, body, payloads,
                   exit_msg>>

\* urlopen raises, or the feed has no results (sys.exit), or it has no
\* entries (last_id is None and search_arxiv raises)
QueryFails ==
    /\ pc = "search"
    /\ pc' = "exit"
    /\ exit_msg' = "fetch"
    /\ UNCHANGED <<parseVars, matchVars, dry_run, mail, webhook, old_id,
                   param_file, writes, feeds, cat_papers, cat_last_id, papers,
                   last_id, claims, body, payloads>>

\* the end of search_arxiv, lines 308-313, and the assignment of line 491
SearchDone ==
    /\ pc = "search"
    /\ feeds # <<>>
    /\ \E sorted \in SortedOrders(Deduped(cat_papers)) :
          /\ cat_papers' = sorted
          /\ papers' = sorted
    /\ last_id' = cat_last_id
    /\ pc' = "filter"
    /\ UNCHANGED <<parseVars, matchVars, dry_run, mail, webhook, old_id,
                   param_file, writes, feeds, cat_last_id, claims, body,
                   payloads, exit_msg>>

\* papers = filter_keyword_requires(papers, channel_req), lines 494 and 520
FilterPapers ==
    /\ pc = "filter"
    /\ papers' = FilterKeywordRequires(papers, channel_req)
    /\ claims' = FilterClaims(papers, channel_req).out
    /\ pc' = "email"
    /\ UNCHANGED <<parseVars, matchVars, dry_run, mail, webhook, old_id,
                   param_file, writes, feeds, cat_papers, cat_last_id, last_id,
                   body, payloads, exit_msg>>

\* report() is called: a non-dry run with -m and at least one paper
Reports == ~dry_run /\ mail /\ papers # <<>>

\* send_email returns; after it a dry run is over
SendEmail ==
    /\ pc = "email"
    /\ body' = papers
    /\ pc' = IF dry_run THEN "done" ELSE "webhook"
    /\ UNCHANGED <<parseVars, matchVars, dry_run, mail, webhook, old_id,
                   param_file, writes, feeds, cat_papers, cat_last_id, papers,
                   last_id, claims, payloads, exit_msg>>

\* report() fails: sys.exit on SMTPException, any other exception is not caught
MailFails ==
    /\ pc = "email"
    /\ Reports
    /\ body' = papers
    /\ pc' = "exit"
    /\ exit_msg' = "mail"
    /\ UNCHANGED <<parseVars, matchVars, dry_run, mail, webhook, old_id,
                   param_file, writes, feeds, cat_papers, cat_last_id, papers,
                   last_id, claims, payloads>>

\* lines 497-506: the webhook file is read, or there is none
ReadWebhook ==
    /\ pc = "webhook"
    /\ pc' = "slack"
    /\ UNCHANGED <<parseVars, matchVars, runVars>>

WebhookFileFails ==
    /\ pc = "webhook"
    /\ webhook
    /\ pc' = "exit"
    /\ exit_msg' = "webhook file"
    /\ UNCHANGED <<parseVars, matchVars, dry_run, mail, webhook, old_id,
                   param_file, writes, feeds, cat_papers, cat_last_id, papers,
                   last_id, claims, body, payloads>>

\* the return codes curl can end with: 0, and 1 for any other
ReturnCodes == {0, 1}

\* slack_post(papers, channel_req, webhook=webhook): without a webhook it
\* prints the channel names; with one it runs curl once per channel on the
\* payload and drops what run() returns
SlackPost ==
    /\ pc = "slack"
    /\ \E rcs \in [1..Len(channel_req) -> ReturnCodes] :
          payloads' =
              IF webhook
              THEN [ci \in 1..Len(channel_req) |->
                       [channel |-> channel_req[ci].c,
                        text |-> ChannelBody(papers, channel_req, ci),
                        rc |-> rcs[ci]]]
              ELSE <<>>
    /\ papers' = SlackClaims(papers, channel_req).papers
    /\ pc' = "write"
    /\ UNCHANGED <<parseVars, matchVars, dry_run, mail, webhook, old_id,
                   param_file, writes, feeds, cat_papers, cat_last_id, last_id,
                   claims, body, exit_msg>>

\* lines 510-518: f.write(last_id)
WriteMarker ==
    /\ pc = "write"
    /\ param_file' = last_id
    /\ writes' = writes + 1
    /\ pc' = "done"
    /\ UNCHANGED <<parseVars, matchVars, dry_run, mail, webhook, old_id, feeds,
                   cat_papers, cat_last_id, papers, last_id, claims, body,
                   payloads, exit_msg>>

\* open(param_file, "w") fails: sys.exit
WriteFails ==
    /\ pc = "write"
    /\ pc' = "exit"
    /\ exit_msg' = "param file"
    /\ UNCHANGED <<parseVars, matchVars, dry_run, mail, webhook, old_id,
                   param_file, writes, feeds, cat_papers, cat_last_id, papers,
                   last_id, claims, body, payloads>>

NextRun ==
    \/ DoQuery \/ QueryFails \/ SearchDone
    \/ FilterPapers
    \/ SendEmail \/ MailFails
    \/ ReadWebhook \/ WebhookFileFails
    \/ SlackPost
    \/ WriteMarker \/ WriteFails

SpecRun == InitRun /\ [][NextRun]_vars

-----------------------------------------------------------------------------
(* Claims about the parser (SpecParse) *)

EndsWith(s, p) == Len(p) <= Len(s) /\ SubSeq(s, Len(s) - Len(p) + 1, Len(s)) = p

\* the keyword of the line read last, before its suffixes are looked at
LineKeyword == KeywordPart(CleanLine(line))

\* the rule the claim expects for a keyword: only a trailing "-" and a
\* trailing "!" are suffixes
SuffixesOnly(kw) ==
    IF EndsWith(kw, <<"-", "!">>) \/ EndsWith(kw, <<"!", "-">>)
    THEN [name |-> SubSeq(kw, 1, Len(kw) - 2), matching |-> "unique", required |-> TRUE]
    ELSE IF EndsWith(kw, <<"-">>)
    THEN [name |-> DropLast(kw), matching |-> "unique", required |-> FALSE]
    ELSE IF EndsWith(kw, <<"!">>)
    THEN [name |-> DropLast(kw), matching |-> "any", required |-> TRUE]
    ELSE [name |-> kw, matching |-> "any", required |-> FALSE]

\* C8: for every keyword line the parsed rule's text is the line's keyword
\* with only a trailing "-" and/or a trailing "!" removed, and the match mode
\* and the required flag are switched by those trailing suffixes alone.
C8_StripsOnlySuffixes ==
    (pc = "parse" /\ nlines > 0 /\ IsKeywordLine(line)) =>
        LET k == keywords[Len(keywords)]
            want == SuffixesOnly(LineKeyword)
        IN  /\ k.name = want.name
            /\ k.matching = want.matching
            /\ k.required = want.required

-----------------------------------------------------------------------------
(* Claims about the evaluation of an entry (SpecMatch) *)

Matched(i) == \E j \in 1..Len(res.key_match_results) : res.key_match_results[j] = i

\* an exclude term of rule i occurs in the lower-cased title or abstract
ExcludeTermOccurs(i) ==
    \E n \in keywords[i].excludes :
        IsSubstr(n, Lower(entry.title)) \/ IsSubstr(n, Lower(entry.abstract))

\* the text of rule i occurs in the entry, in the way its mode asks for
OwnTextOccurs(i) ==
    IF keywords[i].matching = "any"
    THEN \/ IsSubstr(keywords[i].name, Lower(entry.title))
         \/ IsSubstr(keywords[i].name, Lower(entry.abstract))
    ELSE keywords[i].name \in Words(entry.title) \cup Words(entry.abstract)

\* C1: an entry for which a required rule does not match produces no Paper,
\* wherever the required rule stands among the rules.
C1_RequiredUnmatchedNoPaper ==
    pc = "evaluated" =>
        ((\E i \in 1..Len(keywords) :
              /\ keywords[i].required
              /\ ~ExcludeTermOccurs(i)
              /\ ~OwnTextOccurs(i))
         => ~res.has_paper)

\* C7: a rule one of whose exclude terms occurs in the lower-cased title or
\* abstract is not among the matched rules, so it adds neither its text to the
\* Paper's keywords nor its channel to the Paper's channels, in either mode
\* and also when its own text occurs.
C7_ExcludedRuleAddsNothing ==
    pc = "evaluated" =>
        \A i \in 1..Len(keywords) :
            ExcludeTermOccurs(i) =>
                /\ ~Matched(i)
                /\ (\A j \in 1..Len(keywords) :
                        Matched(j) => keywords[j].name # keywords[i].name)
                   => keywords[i].name \notin res.keywords
                /\ (\A j \in 1..Len(keywords) :
                        Matched(j) => keywords[j].channel # keywords[i].channel)
                   => keywords[i].channel \notin res.channels

\* both modes at once: two rules whose own text occurs and whose exclude term
\* occurs, one "any" and one "unique"
C7_Witness ==
    /\ pc = "evaluated"
    /\ \E i, j \in 1..Len(keywords) :
          /\ keywords[i].matching = "any" /\ keywords[j].matching = "unique"
          /\ ExcludeTermOccurs(i) /\ OwnTextOccurs(i)
          /\ ExcludeTermOccurs(j) /\ OwnTextOccurs(j)
          /\ ~Matched(i) /\ ~Matched(j)
          /\ ~res.has_paper

\* C10: a required rule whose exclude term occurs never ends the rule loop and
\* never clears meets_requirements, its own text being present or not; the
\* rules after it are evaluated as if it were not there.
C10_ExcludedRequiredIsSatisfied ==
    pc = "evaluated" =>
        \A i \in 1..Len(keywords) :
            (keywords[i].required /\ ExcludeTermOccurs(i)) =>
                /\ res.broke_at # i
                /\ (\A h \in 1..Len(keywords) :
                        keywords[h].required =>
                            (ExcludeTermOccurs(h) \/ OwnTextOccurs(h)))
                   => /\ res.meets_requirements
                      /\ \A j \in (i + 1)..Len(keywords) :
                            (OwnTextOccurs(j) /\ ~ExcludeTermOccurs(j)) => Matched(j)

\* a required rule, excluded, its own text absent, and a later rule matched
C10_Witness ==
    /\ pc = "evaluated"
    /\ Len(keywords) >= 2
    /\ keywords[1].required
    /\ ExcludeTermOccurs(1)
    /\ ~OwnTextOccurs(1)
    /\ Matched(2)
    /\ res.has_paper
    /\ res.meets_requirements

-----------------------------------------------------------------------------
(* Claims about a run of doit (SpecRun) *)

Range(f) == {f[i] : i \in DOMAIN f}

IdsOf(ps) == [j \in 1..Len(ps) |-> ps[j].arxiv_id]

\* search_arxiv has returned
AfterSearch == pc \notin {"search"} /\ exit_msg # "fetch"

\* filter_keyword_requires has returned; cat_papers still holds its input
AfterFilter == AfterSearch /\ pc # "filter"

\* slack_post has returned
AfterSlack == AfterFilter /\ ~dry_run /\ (pc \in {"write", "done"} \/ exit_msg = "param file")

\* the ids of the papers the Channel Filter selected for channel c
SelectedFor(c) ==
    {cat_papers[claims[j].i].arxiv_id : j \in {j \in 1..Len(claims) : claims[j].c = c}}

\* C2: in a non-dry run with a webhook, the payload text built for each
\* channel holds exactly the papers the Channel Filter selected for it.
C2_PayloadHoldsSelectedPapers ==
    (AfterSlack /\ webhook) =>
        /\ Len(payloads) = Len(channel_req)
        /\ \A ci \in 1..Len(channel_req) :
              /\ payloads[ci].channel = channel_req[ci].c
              /\ Range(payloads[ci].text) = SelectedFor(channel_req[ci].c)

EntryIds == UNION {{feeds[c][k].id : k \in 1..Len(feeds[c])} : c \in 1..Len(feeds)}

C4_MarkerWrittenOnlyAfterSuccess ==
    /\ writes <= 1
    /\ writes = 1 =>
          /\ ~dry_run
          /\ exit_msg = None
          /\ \A i \in 1..Len(payloads) : payloads[i].rc = 0
    /\ writes = 0 => param_file = old_id

\* paper p meets what channel channel_req[ci] asks for
MeetsChannel(p, ci) ==
    /\ channel_req[ci].c \in p.channels
    /\ Cardinality(p.keywords) >= channel_req[ci].n

MeetingChannels(p) == {ci \in 1..Len(channel_req) : MeetsChannel(p, ci)}

\* C5: the Channel Filter selects each paper at most once; a paper that meets
\* what one or more channels ask for is claimed by the first of them in the
\* mapping's order and by no later one.
C5_ClaimedOnceByFirstChannel ==
    AfterFilter =>
        /\ \A j, k \in 1..Len(claims) : j # k => claims[j].i # claims[k].i
        /\ \A j, k \in 1..Len(papers) : j # k => papers[j].arxiv_id # papers[k].arxiv_id
        /\ IdsOf(papers) = [j \in 1..Len(claims) |-> cat_papers[claims[j].i].arxiv_id]
        /\ \A j \in 1..Len(claims) :
              LET first == CHOOSE ci \in MeetingChannels(cat_papers[claims[j].i]) :
                               \A di \in MeetingChannels(cat_papers[claims[j].i]) : ci <= di
              IN  /\ MeetingChannels(cat_papers[claims[j].i]) # {}
                  /\ claims[j].c = channel_req[first].c
        /\ \A i \in 1..Len(cat_papers) :
              MeetingChannels(cat_papers[i]) # {} =>
                  \E j \in 1..Len(claims) : claims[j].i = i

\* a paper meets what two channels ask for and the first has claimed it
C5_Witness ==
    /\ pc = "email"
    /\ \E j \in 1..Len(claims) :
          /\ Cardinality(MeetingChannels(cat_papers[claims[j].i])) >= 2
          /\ claims[j].c = channel_req[1].c
          /\ \A k \in 1..Len(claims) : claims[k].i = claims[j].i => k = j

\* C6: with an empty channel-requirement mapping the Channel Filter returns
\* its input: the same papers in the same order.
C6_EmptyMappingIsIdentity ==
    (AfterFilter /\ channel_req = <<>>) => IdsOf(papers) = IdsOf(cat_papers)

\* send_email has composed the body
AfterEmail == AfterFilter /\ pc # "email"

\* C9 as stated: in the paper sequence handed to send_email no paper stands
\* after a paper with fewer matched keywords, for any number of channels.
C9_DigestDescending ==
    AfterEmail =>
        \A i, j \in 1..Len(body) :
            i < j => Cardinality(body[i].keywords) >= Cardinality(body[j].keywords)

\* the place of channel c in the mapping's iteration order
ChannelIndex(c) == CHOOSE ci \in 1..Len(channel_req) : channel_req[ci].c = c

\* C9 as amended: the paper sequence handed to send_email is grouped by the
\* channel that claimed each paper, the groups in the mapping's order; inside
\* a group no paper stands after a paper with fewer matched keywords.
C9_DescendingWithinChannel ==
    AfterEmail =>
        /\ Len(body) = Len(claims)
        /\ \A i, j \in 1..Len(body) :
              i < j =>
                  /\ ChannelIndex(claims[i].c) <= ChannelIndex(claims[j].c)
                  /\ claims[i].c = claims[j].c =>
                        Cardinality(body[i].keywords) >= Cardinality(body[j].keywords)

\* one channel has claimed a paper with two keywords and a paper with one
C9_Witness ==
    /\ AfterEmail
    /\ \E i, j \in 1..Len(body) :
          /\ i < j
          /\ claims[i].c = claims[j].c
          /\ Cardinality(body[i].keywords) > Cardinality(body[j].keywords)

=============================================================================
